---- MODULE Spec2Model ----
(***************************************************************************)
(* The request dispatch pipeline of httpx: the auth middlewares and the    *)
(* redirect resolution engine of httpx/middleware.py, driven by a caller   *)
(* through one eager and one lazy redirect middleware that share the same  *)
(* responder.                                                              *)
(***************************************************************************)
EXTENDS Integers, Sequences, FiniteSets, TLC

\* ------------------------------------------------------------------ bounds

\* the largest max_redirects a middleware is configured with
MaxRedirectsBound == 2
\* top-level requests the caller sends through one middleware
MaxSends == 2
\* times the caller invokes a continuation it has already invoked
MaxReplays == 1
\* exchanges a task makes one after the other
MaxExchanges == 3
\* exchanges each of two concurrent tasks makes
MaxConcurrent == 1
\* times the connection is marked dropped
MaxDrops == 1
MaxEvents == 4

\* --------------------------------------------------------------- constants

codes ==
    [OK |-> 200, MOVED_PERMANENTLY |-> 301, FOUND |-> 302, SEE_OTHER |-> 303,
     TEMPORARY_REDIRECT |-> 307, PERMANENT_REDIRECT |-> 308]

RedirectCodes ==
    {codes.MOVED_PERMANENTLY, codes.FOUND, codes.SEE_OTHER,
     codes.TEMPORARY_REDIRECT, codes.PERMANENT_REDIRECT}

Methods == {"GET", "HEAD", "POST", "PUT"}

\* a header or cookie that is not set
Absent == "<absent>"

\* --------------------------------------------------------------------- URL

URL(scheme, host, path, fragment) ==
    [scheme |-> scheme, host |-> host, path |-> path, fragment |-> fragment]

is_relative_url(url) == url.scheme = "" \/ url.host = ""

DefaultPort(scheme) == IF scheme = "https" THEN 443 ELSE 80

origin(url) == <<url.scheme, url.host, DefaultPort(url.scheme)>>

\* RFC 3986 reference resolution of a reference with an absolute path
join(base, ref) ==
    IF ref.scheme # "" THEN ref
    ELSE [scheme |-> base.scheme,
          host |-> IF ref.host # "" THEN ref.host ELSE base.host,
          path |-> ref.path,
          fragment |-> ref.fragment]

copy_with_fragment(url, fragment) == [url EXCEPT !.fragment = fragment]

NoLocation == URL("", "", "", "")

\* ---------------------------------------------------------------- requests

Headers(authorization, host) == [Authorization |-> authorization, Host |-> host]

del_header(headers, name) == [headers EXCEPT ![name] = Absent]

Cookies(seed) == seed

cookies_update(cookies, other) ==
    [k \in DOMAIN cookies |-> IF other[k] # Absent THEN other[k] ELSE cookies[k]]

\* AsyncRequest(method, url, headers, data, cookies): a body given as bytes is
\* not streaming, and a missing Host header is set from the URL
AsyncRequest(method, url, headers, data, cookies) ==
    [method |-> method,
     url |-> url,
     headers |-> IF headers.Host = Absent
                 THEN [headers EXCEPT !.Host = url.host] ELSE headers,
     content |-> data,
     is_streaming |-> FALSE,
     cookies |-> cookies]

\* a request whose body is an async iterator: a one-shot stream
StreamingRequest(method, url, headers, data, cookies) ==
    [AsyncRequest(method, url, headers, data, cookies) EXCEPT !.is_streaming = TRUE]

\* --------------------------------------------------------------- responses

\* what the responder answers: a status code and an optional Location header
Reply(status_code, location) ==
    [status_code |-> status_code,
     has_location |-> location # NoLocation,
     location |-> location,
     raises |-> ""]

\* the responder raises instead of answering
ReplyRaises(error) == [Reply(0, NoLocation) EXCEPT !.raises = error]

is_redirect(response) ==
    response.status_code \in RedirectCodes /\ response.has_location

AsyncResponse(reply, request) ==
    [status_code |-> reply.status_code,
     has_location |-> reply.has_location,
     location |-> reply.location,
     request |-> request,
     history |-> <<>>,
     next |-> <<>>]

response_url(response) == response.request.url

\* ---------------------------------------------------------- Redirect engine

redirect_method_head_unchecked(request, response) ==
    LET m0 == request.method
        m1 == IF response.status_code = codes.SEE_OTHER /\ m0 # "HEAD"
              THEN "GET" ELSE m0
        m2 == IF response.status_code = codes.FOUND THEN "GET" ELSE m1
        m3 == IF response.status_code = codes.MOVED_PERMANENTLY /\ m2 = "POST"
              THEN "GET" ELSE m2
    IN  m3

redirect_method(request, response) ==
    LET m0 == request.method
        m1 == IF response.status_code = codes.SEE_OTHER /\ m0 # "HEAD"
              THEN "GET" ELSE m0
        m2 == IF response.status_code = codes.FOUND /\ m1 # "HEAD"
              THEN "GET" ELSE m1
        m3 == IF response.status_code = codes.MOVED_PERMANENTLY /\ m2 = "POST"
              THEN "GET" ELSE m2
    IN  m3

redirect_url_fragment_always(request, response) ==
    LET location == response.location
        url == IF is_relative_url(location)
               THEN join(request.url, location) ELSE location
    IN  IF request.url.fragment # ""
        THEN copy_with_fragment(url, request.url.fragment) ELSE url

redirect_url(request, response) ==
    LET location == response.location
        url == IF is_relative_url(location)
               THEN join(request.url, location) ELSE location
    IN  IF request.url.fragment # "" /\ url.fragment = ""
        THEN copy_with_fragment(url, request.url.fragment) ELSE url

redirect_headers_keep_host(request, url) ==
    IF origin(url) # origin(request.url)
    THEN del_header(request.headers, "Authorization")
    ELSE request.headers

\* only the Host header is stripped on a change of origin
redirect_headers_keep_authorization(request, url) ==
    IF origin(url) # origin(request.url)
    THEN del_header(request.headers, "Host")
    ELSE request.headers

redirect_headers(request, url) ==
    LET headers == request.headers
    IN  IF origin(url) # origin(request.url)
        THEN del_header(del_header(headers, "Authorization"), "Host")
        ELSE headers

\* redirect_content either returns the body or raises RedirectBodyUnavailable
redirect_content_raises_never(request, method) == FALSE

redirect_content_raises(request, method) ==
    ~(method # request.method /\ method = "GET") /\ request.is_streaming

redirect_content(request, method) ==
    IF method # request.method /\ method = "GET" THEN "" ELSE request.content

\* redirect_headers deletes from the headers of the request it was given
redirected_request_shared_headers(self, request, response) ==
    [request EXCEPT !.headers =
        redirect_headers(request, redirect_url(request, response))]

\* the request given to build_redirect_request, as it is after the call: the
\* method, the URL, the body and the cookies are read, and the headers are
\* copied by Headers(request.headers) before any is deleted
redirected_request(self, request, response) == request

\* the request build_redirect_request returns when redirect_content does not raise
build_redirect_request(self, request, response) ==
    LET method == redirect_method(request, response)
        url == redirect_url(request, response)
        headers == redirect_headers(request, url)
        content == redirect_content(request, method)
        cookies == cookies_update(Cookies(self.cookies), request.cookies)
    IN  AsyncRequest(method, url, headers, content, cookies)

\* the guard of line 70: the hops already taken exceed the ceiling
limit_exceeded_off_by_one(self) == Len(self.history) > self.max_redirects + 1

limit_exceeded(self) == Len(self.history) > self.max_redirects

\* the guard of line 72, over the URLs of the responses in the history
loop_detected_last_only(history_urls, request) ==
    Len(history_urls) > 0 /\ request.url = history_urls[Len(history_urls)]

\* only the URL of the first response of the chain is compared
loop_detected_first_only(history_urls, request) ==
    Len(history_urls) > 0 /\ request.url = history_urls[1]

loop_detected(history_urls, request) ==
    \E i \in 1..Len(history_urls) : request.url = history_urls[i]

\* no history is attached to the response
history_snapshot_none(self) == <<>>

\* list(self.history): the snapshot attached to a response
history_snapshot(self) == self.history

history_append_front(history, response) == <<response>> \o history

history_append(history, response) == Append(history, response)

\* functools.partial(self.dispatch, next_request, get_response), as the request
\* the continuation dispatches; no continuation is the empty sequence
continuation_of_request(request, next_request) == <<request>>

continuation(request, next_request) == <<next_request>>

Redirect__init__(allow_redirects, max_redirects, cookies) ==
    [allow_redirects |-> allow_redirects,
     max_redirects |-> max_redirects,
     cookies |-> cookies,
     history |-> <<>>]

\* ------------------------------------------------------- auth middlewares

\* f"Basic {token}" with token = b64encode(b":".join((username, password)))
authorization_header(username, password) ==
    CASE username = "user" /\ password = "pass" -> "Basic dXNlcjpwYXNz"
      [] username = "admin" /\ password = "" -> "Basic YWRtaW46"
      [] OTHER -> "Basic Og=="

basic_auth(username, password) ==
    [kind |-> "basic",
     authorization_header |-> authorization_header(username, password)]

\* the caller's transform of this model signs the request with its own token
custom_auth_transform(request) ==
    [request EXCEPT !.headers.Authorization = "Token caller"]

custom_auth == [kind |-> "custom", authorization_header |-> ""]

no_auth == [kind |-> "none", authorization_header |-> ""]

\* sets the header only on a request that carries none
basic_auth_dispatch_setdefault(mw, request) ==
    IF request.headers.Authorization = Absent
    THEN [request EXCEPT !.headers.Authorization = mw.authorization_header]
    ELSE request

\* basic_auth's dispatch sets the header on the request it was given
basic_auth_dispatch(mw, request) ==
    [request EXCEPT !.headers.Authorization = mw.authorization_header]

custom_auth_dispatch(mw, request) == custom_auth_transform(request)

\* ------------------------------------------------- HTTP/2 frames and bytes

\* bytes are sequences of units; b"" is the empty sequence
Frame(type, stream_id, headers, data, end_stream) ==
    [type |-> type, stream_id |-> stream_id, headers |-> headers,
     data |-> data, end_stream |-> end_stream]

\* the bytes of a frame: its frame header and its payload, which a read of the
\* transport may separate
serialize(frame) ==
    <<[frame |-> frame, part |-> 1], [frame |-> frame, part |-> 2]>>

RECURSIVE serialize_all(_)
serialize_all(frames) ==
    IF frames = <<>> THEN <<>>
    ELSE serialize(Head(frames)) \o serialize_all(Tail(frames))

Corrupt == Frame("CORRUPT", 0, <<>>, <<>>, FALSE)

\* the complete frames at the front of a byte string
RECURSIVE parse(_)
parse(bytes) ==
    IF Len(bytes) < 2 THEN <<>>
    ELSE <<IF /\ bytes[1].part = 1 /\ bytes[2].part = 2
              /\ bytes[1].frame = bytes[2].frame
           THEN bytes[1].frame ELSE Corrupt>>
         \o parse(SubSeq(bytes, 3, Len(bytes)))

\* the bytes of a frame that is not complete yet
remainder(bytes) ==
    IF Len(bytes) % 2 = 1 THEN <<bytes[Len(bytes)]>> ELSE <<>>

\* -------------------------------------------------- the server-side codec

\* h2.connection.H2Connection(client_side=False): the bytes received that do
\* not make a frame yet, whether the peer's preface was received, the streams
\* the peer has begun, those of them it has not ended, those this end has
\* ended, the bytes to send, and whether a protocol error has closed the
\* connection
H2Connection ==
    [inbound |-> <<>>, preface |-> FALSE, streams |-> {}, open |-> {},
     closed |-> {}, highest |-> 0, outbox |-> <<>>, error |-> FALSE]

Event(type, stream_id, headers, data) ==
    [type |-> type, stream_id |-> stream_id, headers |-> headers, data |-> data]

StreamEnded(stream_id) == Event("StreamEnded", stream_id, <<>>, <<>>)

\* the events of one frame and the codec after it; a frame the protocol does
\* not allow closes the connection and makes receive_data raise
conn_receive_frame(conn, frame) ==
    CASE conn.error -> [conn |-> conn, events |-> <<>>, error |-> TRUE]
      [] frame.type = "SETTINGS" ->
            [conn |-> [conn EXCEPT !.preface = TRUE, !.outbox = @ \o serialize(
                          Frame("SETTINGS_ACK", 0, <<>>, <<>>, FALSE))],
             events |-> <<Event("RemoteSettingsChanged", 0, <<>>, <<>>)>>,
             error |-> FALSE]
      [] frame.type = "HEADERS" /\ conn.preface
                                /\ frame.stream_id > conn.highest
                                /\ frame.stream_id % 2 = 1 ->
            [conn |-> [conn EXCEPT
                          !.highest = frame.stream_id,
                          !.streams = @ \cup {frame.stream_id},
                          !.open = IF frame.end_stream THEN @
                                   ELSE @ \cup {frame.stream_id}],
             events |-> <<Event("RequestReceived", frame.stream_id,
                                frame.headers, <<>>)>>
                        \o (IF frame.end_stream
                            THEN <<StreamEnded(frame.stream_id)>> ELSE <<>>),
             error |-> FALSE]
      [] frame.type = "DATA" /\ frame.stream_id \in conn.open ->
            [conn |-> [conn EXCEPT
                          !.open = IF frame.end_stream
                                   THEN @ \ {frame.stream_id} ELSE @],
             events |-> <<Event("DataReceived", frame.stream_id, <<>>,
                                frame.data)>>
                        \o (IF frame.end_stream
                            THEN <<StreamEnded(frame.stream_id)>> ELSE <<>>),
             error |-> FALSE]
      [] OTHER -> [conn |-> [conn EXCEPT !.error = TRUE], events |-> <<>>,
                   error |-> TRUE]

RECURSIVE conn_receive_frames(_, _)
conn_receive_frames(conn, frames) ==
    IF frames = <<>> THEN [conn |-> conn, events |-> <<>>, error |-> FALSE]
    ELSE LET first == conn_receive_frame(conn, Head(frames))
             rest == conn_receive_frames(first.conn, Tail(frames))
         IN  IF first.error THEN first
             ELSE [conn |-> rest.conn, events |-> first.events \o rest.events,
                   error |-> rest.error]

\* self.conn.receive_data(data)
conn_receive_data(conn, data) ==
    LET bytes == conn.inbound \o data
    IN  conn_receive_frames([conn EXCEPT !.inbound = remainder(bytes)],
                            parse(bytes))

\* self.conn.send_headers(stream_id, headers)
conn_send_headers(conn, stream_id, headers) ==
    [conn EXCEPT !.outbox = @ \o serialize(
        Frame("HEADERS", stream_id, headers, <<>>, FALSE))]

\* self.conn.send_data(stream_id, data, end_stream=True)
conn_send_data(conn, stream_id, data) ==
    [conn EXCEPT !.outbox = @ \o serialize(
                     Frame("DATA", stream_id, <<>>, data, TRUE)),
                 !.closed = @ \cup {stream_id}]

\* ------------------------------------------------------ the application

\* the value of the last pair with this key: dict(headers)[key]
RECURSIVE headers_dict(_, _)
headers_dict(headers, key) ==
    IF headers = <<>> THEN Absent
    ELSE IF headers[Len(headers)][1] = key THEN headers[Len(headers)][2]
    ELSE headers_dict(SubSeq(headers, 1, Len(headers) - 1), key)

\* the pairs whose key does not start with a colon, in order
RECURSIVE regular_headers(_)
regular_headers(headers) ==
    IF headers = <<>> THEN <<>>
    ELSE (IF Head(headers)[1] \in {":method", ":scheme", ":authority", ":path",
                                   ":status"}
          THEN <<>> ELSE <<Head(headers)>>)
         \o regular_headers(Tail(headers))

Request(method, url, headers, data) ==
    [method |-> method, url |-> url, headers |-> headers, content |-> data]

Response(status_code, headers, content) ==
    [status_code |-> status_code, headers |-> headers, content |-> content]

\* the handler of the tests: echoes the method, the path and the body as JSON
app(request) ==
    LET content == <<[method |-> request.method, path |-> request.url.path,
                      body |-> request.content]>>
    IN  Response(codes.OK,
                 <<<<"content-length", ToString(Len(content))>>>>,
                 content)

\* ------------------------------------------------------- MockHTTP2Server

\* self.requests: stream identifiers to the list of their pending records
NoRequests == [stream_id \in {} |-> <<>>]

table_set(requests, stream_id, records) ==
    [k \in DOMAIN requests \cup {stream_id} |->
        IF k = stream_id THEN records ELSE requests[k]]

table_del(requests, stream_id) ==
    [k \in DOMAIN requests \ {stream_id} |-> requests[k]]

\* the server with what the application was called with so far; failed: the
\* last write raised
MockHTTP2Server ==
    [conn |-> H2Connection,
     buffer |-> <<>>,
     requests |-> NoRequests,
     close_connection |-> FALSE,
     app_calls |-> <<>>,
     failed |-> FALSE]

is_connection_dropped(self) == self.close_connection

request_received(self, headers, stream_id) ==
    LET requests == IF stream_id \notin DOMAIN self.requests
                    THEN table_set(self.requests, stream_id, <<>>)
                    ELSE self.requests
    IN  [self EXCEPT !.requests = table_set(requests, stream_id,
            Append(requests[stream_id], [headers |-> headers, data |-> <<>>]))]

\* the data starts a record of its own
receive_data_new_record(self, data, stream_id) ==
    IF stream_id \notin DOMAIN self.requests
    THEN [self EXCEPT !.failed = TRUE]
    ELSE [self EXCEPT !.requests[stream_id] =
            Append(@, [headers |-> <<>>, data |-> data])]

\* the data is put in front of the data of the record
receive_data_prepend(self, data, stream_id) ==
    IF stream_id \notin DOMAIN self.requests
    THEN [self EXCEPT !.failed = TRUE]
    ELSE [self EXCEPT !.requests[stream_id][Len(self.requests[stream_id])].data =
            data \o @]

\* self.requests[stream_id][-1]["data"] += data; a KeyError without a record
receive_data(self, data, stream_id) ==
    IF stream_id \notin DOMAIN self.requests
    THEN [self EXCEPT !.failed = TRUE]
    ELSE [self EXCEPT !.requests[stream_id][Len(self.requests[stream_id])].data =
            @ \o data]

\* the response is sent on the stream opened last
response_stream_highest(self, stream_id) == self.conn.highest

\* the stream the response is sent on
response_stream(self, stream_id) == stream_id

\* self.requests[stream_id].pop(0)
pop_record(records) == [record |-> Head(records), rest |-> Tail(records)]

\* the record is read and stays in the table
stream_complete_keeps_record(self, stream_id) ==
    IF stream_id \notin DOMAIN self.requests THEN [self EXCEPT !.failed = TRUE]
    ELSE
    LET record == Head(self.requests[stream_id])
        method == headers_dict(record.headers, ":method")
        url == [scheme |-> headers_dict(record.headers, ":scheme"),
                authority |-> headers_dict(record.headers, ":authority"),
                path |-> headers_dict(record.headers, ":path")]
        request == Request(method, url, regular_headers(record.headers), record.data)
        response == app(request)
        response_headers ==
            <<<<":status", ToString(response.status_code)>>>> \o response.headers
        sent == conn_send_data(
                    conn_send_headers(self.conn, stream_id, response_headers),
                    stream_id, response.content)
    IN  [self EXCEPT
            !.app_calls = Append(@, [stream_id |-> stream_id, record |-> record,
                                     request |-> request, response |-> response]),
            !.conn = [sent EXCEPT !.outbox = <<>>],
            !.buffer = @ \o sent.outbox]

stream_complete(self, stream_id) ==
    IF stream_id \notin DOMAIN self.requests THEN [self EXCEPT !.failed = TRUE]
    ELSE
    LET popped == pop_record(self.requests[stream_id])
        requests == IF popped.rest = <<>>
                    THEN table_del(self.requests, stream_id)
                    ELSE table_set(self.requests, stream_id, popped.rest)
        record == popped.record
        method == headers_dict(record.headers, ":method")
        url == [scheme |-> headers_dict(record.headers, ":scheme"),
                authority |-> headers_dict(record.headers, ":authority"),
                path |-> headers_dict(record.headers, ":path")]
        request == Request(method, url, regular_headers(record.headers), record.data)
        response == app(request)
        response_headers ==
            <<<<":status", ToString(response.status_code)>>>> \o response.headers
        on == response_stream(self, stream_id)
        sent == conn_send_data(
                    conn_send_headers(self.conn, on, response_headers),
                    on, response.content)
    IN  [self EXCEPT
            !.requests = requests,
            !.app_calls = Append(@, [stream_id |-> stream_id, record |-> record,
                                     request |-> request, response |-> response]),
            !.conn = [sent EXCEPT !.outbox = <<>>],
            !.buffer = @ \o sent.outbox]

\* for event in events: the handler of each event, in order
RECURSIVE handle_events(_, _)
handle_events(self, events) ==
    IF events = <<>> \/ self.failed THEN self
    ELSE LET event == Head(events)
             after ==
                CASE event.type = "RequestReceived" ->
                        request_received(self, event.headers, event.stream_id)
                  [] event.type = "DataReceived" ->
                        receive_data(self, event.data, event.stream_id)
                  [] event.type = "StreamEnded" ->
                        stream_complete(self, event.stream_id)
                  [] OTHER -> self
         IN  handle_events(after, Tail(events))

\* write after its sleep: lines 54 to 62; failed: this call raised
write(self, data) ==
    LET received == conn_receive_data(self.conn, data)
    IN  IF received.error
        THEN [self EXCEPT !.conn = received.conn, !.failed = TRUE]
        ELSE handle_events(
                [self EXCEPT !.conn = [received.conn EXCEPT !.outbox = <<>>],
                             !.buffer = @ \o received.conn.outbox,
                             !.failed = FALSE],
                received.events)

\* the bytes are returned and stay in the buffer
read_keeps_buffer(self, n) ==
    [send |-> SubSeq(self.buffer, 1, IF n < Len(self.buffer) THEN n ELSE Len(self.buffer)),
     self |-> self]

\* read after its sleep: send, self.buffer = self.buffer[:n], self.buffer[n:]
read(self, n) ==
    LET k == IF n < Len(self.buffer) THEN n ELSE Len(self.buffer)
    IN  [send |-> SubSeq(self.buffer, 1, k),
         self |-> [self EXCEPT !.buffer = SubSeq(@, k + 1, Len(@))]]

\* ------------------------------------------------------------------- state

VARIABLES
    auth,         \* the auth middleware in front of the redirect middleware
    req0,         \* the request object the caller sends
    replies,      \* what the responder may answer to a request it has not seen
    served,       \* the responder's answers so far: the same request, the same answer
    engine,       \* the two Redirect instances
    responses,    \* per engine, the responses it received, in order
    pc,           \* "idle", or "dispatch": a Redirect.dispatch invocation is to run
    call,         \* the engine and the request of that invocation, and whether the
                  \* caller made it (a top-level request) or a hop did
    result,       \* per engine, what its last caller-visible call returned or raised
    sends,        \* per engine, the top-level requests sent through it
    invoked,      \* per engine, the responses whose continuation was invoked
    replays,      \* per engine, the invocations of an already invoked continuation
    budget,       \* what the caller does at most: sends and replays per middleware
    rewrites,     \* per engine, the build_redirect_request calls, in order
    invocations,  \* of the current caller-visible call: the times the auth middleware
                  \* and the redirect engine invoked their next responder, and the
                  \* Redirect.dispatch invocations
    forwarded,    \* per engine, the top-level requests as the caller gave them and
                  \* as the auth middleware forwarded them, in order
    backend,      \* the MockHTTP2Backend: its scheduler, the server of its last
                  \* connect, the connects so far and the tasks suspended in sleep
    client,       \* the client's end of the connection: the next stream identifier
                  \* and the bytes it has read
    tasks,        \* per task, where it is in its exchange
    done,         \* per task, the exchanges it completed, in order
    drops,        \* the times the connection was marked dropped
    emitted,      \* the bytes the server of the connection appended to its buffer
    handled,      \* the events handed to the handlers of the server one by one
    plan          \* what the callers do at most

vars ==
    <<auth, req0, replies, served, engine, responses, pc, call, result, sends,
      invoked, replays, budget, rewrites, invocations, forwarded,
      backend, client, tasks, done, drops, emitted, handled, plan>>

\* the state of the redirect and auth middlewares
middleware_vars ==
    <<auth, req0, replies, served, engine, responses, pc, call, result, sends,
      invoked, replays, budget, rewrites, invocations, forwarded>>

\* the state of the HTTP/2 connection
connection_vars == <<backend, client, tasks, done, drops, emitted, handled, plan>>

Engines == {"eager", "lazy"}

NoResult == [kind |-> "none", id |-> 0, error |-> ""]

Returned(id) == [kind |-> "response", id |-> id, error |-> ""]

Raised(error) == [kind |-> "error", id |-> 0, error |-> error]

\* the URLs of the responses in an engine's history, oldest first
history_urls(e) ==
    [i \in 1..Len(engine[e].history) |->
        response_url(responses[e][engine[e].history[i]])]

\* the responder: a function of the request
get_response(request) ==
    IF \E s \in served : s.request = request
    THEN {s.reply : s \in {t \in served : t.request = request}}
    ELSE replies

\* ----------------------------------------------------------------- actions

\* The caller sends req0 through the chain: the auth middleware, when there is
\* one, runs first and forwards to the redirect middleware e.
Send(e) ==
    /\ pc = "idle"
    /\ sends[e] < budget.sends
    /\ LET outgoing ==
               CASE auth.kind = "basic" -> basic_auth_dispatch(auth, req0)
                 [] auth.kind = "custom" -> custom_auth_dispatch(auth, req0)
                 [] OTHER -> req0
       IN  /\ req0' = IF auth.kind = "basic" THEN outgoing ELSE req0
           /\ call' = [engine |-> e, request |-> outgoing, top |-> TRUE]
    /\ pc' = "dispatch"
    /\ sends' = [sends EXCEPT ![e] = @ + 1]
    /\ result' = [result EXCEPT ![e] = NoResult]
    /\ invocations' = [auth |-> IF auth.kind = "none" THEN 0 ELSE 1,
                       dispatch |-> 0, redirect |-> 0]
    /\ forwarded' = [forwarded EXCEPT ![e] =
           Append(@, [given |-> req0, request |-> call'.request])]
    /\ UNCHANGED <<auth, replies, served, engine, responses, invoked, replays, budget, rewrites>>
    /\ UNCHANGED connection_vars

\* The caller invokes the continuation of a redirect response it was handed.
CallNext(e, id) ==
    /\ pc = "idle"
    /\ id \in 1..Len(responses[e])
    /\ responses[e][id].next # <<>>
    /\ id \in invoked[e] => replays[e] < budget.replays
    /\ call' = [engine |-> e, request |-> responses[e][id].next[1], top |-> FALSE]
    /\ pc' = "dispatch"
    /\ result' = [result EXCEPT ![e] = NoResult]
    /\ invoked' = [invoked EXCEPT ![e] = @ \cup {id}]
    /\ replays' = [replays EXCEPT ![e] = IF id \in invoked[e] THEN @ + 1 ELSE @]
    /\ invocations' = [auth |-> 0, dispatch |-> 0, redirect |-> 0]
    /\ UNCHANGED <<auth, req0, replies, served, engine, responses, sends, budget, rewrites,
                   forwarded>>
    /\ UNCHANGED connection_vars

\* the error is swallowed and the last response received is returned
Raise_returns_last(e, error) ==
    /\ pc' = "idle"
    /\ result' = [result EXCEPT ![e] = [kind |-> "response",
                                         id |-> Len(responses[e]), error |-> ""]]
    /\ UNCHANGED call

\* dispatch raises: the error reaches the caller
Raise(e, error) ==
    /\ pc' = "idle"
    /\ result' = [result EXCEPT ![e] = Raised(error)]
    /\ UNCHANGED call

\* dispatch returns a response to the caller
Return(e, id) ==
    /\ pc' = "idle"
    /\ result' = [result EXCEPT ![e] = Returned(id)]
    /\ UNCHANGED call

\* One invocation of Redirect.dispatch, up to its raise, its return or its
\* recursive call.
Redirect_dispatch ==
    /\ pc = "dispatch"
    /\ LET e == call.engine
           self == engine[e]
           request == call.request
           id == Len(responses[e]) + 1
       IN  IF limit_exceeded(self)
           THEN /\ Raise(e, "TooManyRedirects")
                /\ invocations' = [invocations EXCEPT !.dispatch = @ + 1]
                /\ UNCHANGED <<served, engine, responses, rewrites>>
           ELSE IF loop_detected(history_urls(e), request)
           THEN /\ Raise(e, "RedirectLoop")
                /\ invocations' = [invocations EXCEPT !.dispatch = @ + 1]
                /\ UNCHANGED <<served, engine, responses, rewrites>>
           ELSE \E reply \in get_response(request) :
                IF reply.raises # ""
                THEN /\ served' = served \cup {[request |-> request, reply |-> reply]}
                     /\ invocations' = [invocations EXCEPT !.dispatch = @ + 1,
                                                          !.redirect = @ + 1]
                     /\ Raise(e, reply.raises)
                     /\ UNCHANGED <<engine, responses, rewrites>>
                ELSE
                LET response ==
                        [AsyncResponse(reply, request)
                            EXCEPT !.history = history_snapshot(self)]
                    method == redirect_method(request, response)
                    next_request == build_redirect_request(self, request, response)
                    raises == redirect_content_raises(request, method)
                    redirected ==
                        [response EXCEPT !.request =
                            redirected_request(self, request, response)]
                IN  /\ served' = served \cup {[request |-> request, reply |-> reply]}
                    /\ invocations' = [invocations EXCEPT !.dispatch = @ + 1, !.redirect = @ + 1]
                    /\ IF ~is_redirect(response)
                       THEN /\ responses' = [responses EXCEPT ![e] = Append(@, response)]
                            /\ Return(e, id)
                            /\ UNCHANGED <<engine, rewrites>>
                       ELSE /\ engine' = [engine EXCEPT
                                   ![e].history = history_append(@, id)]
                            /\ rewrites' = [rewrites EXCEPT ![e] = Append(@,
                                   [request |-> request, response |-> id,
                                    method |-> method,
                                    url |-> redirect_url(request, response),
                                    headers |-> redirect_headers(request,
                                        redirect_url(request, response)),
                                    content |-> redirect_content(request, method),
                                    raised |-> raises,
                                    next_request |-> next_request])]
                            /\ IF raises
                               THEN /\ responses' =
                                        [responses EXCEPT ![e] = Append(@, redirected)]
                                    /\ Raise(e, "RedirectBodyUnavailable")
                               ELSE IF self.allow_redirects
                               THEN /\ responses' =
                                        [responses EXCEPT ![e] = Append(@, redirected)]
                                    /\ call' = [engine |-> e, request |-> next_request,
                                                top |-> FALSE]
                                    /\ UNCHANGED <<pc, result>>
                               ELSE /\ responses' = [responses EXCEPT ![e] = Append(@,
                                        [redirected EXCEPT !.next =
                                            continuation(request, next_request)])]
                                    /\ Return(e, id)
    /\ UNCHANGED <<auth, req0, replies, sends, invoked, replays, budget, forwarded>>
    /\ UNCHANGED connection_vars

\* ------------------------------------------- actions of the connection

Tasks == {"t1", "t2"}

\* the n the client reads with: more than the bytes of a frame
ReadNumBytes == 3

Backends == {"asyncio", "trio"}

\* MockHTTP2Backend(app, backend)
MockHTTP2Backend(kind) ==
    [kind |-> kind, server |-> <<>>, connects |-> 0, ready |-> <<>>]

\* the server of the last connect is kept when there is one
connect_keeps_server(self) ==
    IF self.server # <<>> THEN [self EXCEPT !.connects = @ + 1]
    ELSE [self EXCEPT !.server = <<MockHTTP2Server>>, !.connects = @ + 1]

\* MockHTTP2Backend.connect: a new server replaces the last one
connect(self) ==
    [self EXCEPT !.server = <<MockHTTP2Server>>, !.connects = @ + 1]

\* backend.sleep(0): the task is suspended behind the tasks already suspended
sleep(self, t) == [self EXCEPT !.ready = Append(@, t)]

\* the task the scheduler may resume: asyncio resumes in the order of
\* suspension, trio in any order
runnable(self, t) ==
    /\ \E i \in 1..Len(self.ready) : self.ready[i] = t
    /\ self.kind = "asyncio" => self.ready[1] = t

resumed(self, t) ==
    [self EXCEPT !.ready = SelectSeq(@, LAMBDA u : u # t)]

Idle ==
    [pc |-> "idle", request |-> [method |-> "", path |-> "", body |-> <<>>],
     stream_id |-> 0, outgoing |-> <<>>, data |-> <<>>, n |-> 0]

\* the frames of a request on a stream: the headers, the body chunks, and the
\* end of the stream
RECURSIVE data_frames(_, _)
data_frames(stream_id, body) ==
    IF body = <<>> THEN <<Frame("DATA", stream_id, <<>>, <<>>, TRUE)>>
    ELSE <<Frame("DATA", stream_id, <<>>, Head(body), FALSE)>>
         \o data_frames(stream_id, Tail(body))

request_frames(request, stream_id) ==
    <<Frame("HEADERS", stream_id,
            <<<<":method", request.method>>, <<":authority", "example.org">>,
              <<":scheme", "http">>, <<":path", request.path>>,
              <<"accept", "*/*">>>>,
            <<>>, FALSE)>>
    \o data_frames(stream_id, request.body)

\* the response the client reads off the frames of a stream, once its last
\* frame is there
RECURSIVE stream_content(_, _)
stream_content(frames, stream_id) ==
    IF frames = <<>> THEN <<>>
    ELSE (IF Head(frames).type = "DATA" /\ Head(frames).stream_id = stream_id
          THEN Head(frames).data ELSE <<>>)
         \o stream_content(Tail(frames), stream_id)

stream_frames(frames, stream_id) ==
    SelectSeq(frames, LAMBDA f : f.stream_id = stream_id)

response_complete(frames, stream_id) ==
    \E i \in 1..Len(frames) :
        /\ frames[i].type = "DATA" /\ frames[i].stream_id = stream_id
        /\ frames[i].end_stream

client_response(frames, stream_id) ==
    LET of_stream == stream_frames(frames, stream_id)
        headers == IF of_stream # <<>> /\ of_stream[1].type = "HEADERS"
                   THEN of_stream[1].headers ELSE <<>>
    IN  [status_code |-> headers_dict(headers, ":status"),
         headers |-> regular_headers(headers),
         content |-> stream_content(frames, stream_id),
         frames |-> Len(of_stream)]

\* the task calls write with the next frames and is suspended in its sleep, or,
\* with nothing left to write, calls read; the preface of a new connection is
\* written with the headers of its first request
next_call(t, task, self) ==
    IF task.outgoing # <<>>
    THEN \E k \in {IF task.outgoing[1].type = "SETTINGS" THEN 2 ELSE 1,
                   Len(task.outgoing)} :
            /\ tasks' = [tasks EXCEPT ![t] = [task EXCEPT
                  !.pc = "write",
                  !.data = serialize_all(SubSeq(task.outgoing, 1, k)),
                  !.outgoing = SubSeq(task.outgoing, k + 1, Len(task.outgoing))]]
            /\ backend' = sleep(self, t)
    ELSE \E n \in plan.reads :
            /\ tasks' = [tasks EXCEPT ![t] = [task EXCEPT
                  !.pc = "read", !.data = <<>>, !.n = n]]
            /\ backend' = sleep(self, t)

\* A caller starts an exchange: the connection is established when there is
\* none or when the last one is dropped, and the request is written.
Begin(t, request) ==
    /\ t \in plan.tasks
    /\ tasks[t].pc = "idle"
    /\ Len(done[t]) < plan.exchanges
    /\ LET fresh == \/ backend.server = <<>>
                    \/ is_connection_dropped(backend.server[1])
           stream_id == IF fresh THEN 1 ELSE client.next_stream_id
           frames == (IF fresh THEN <<Frame("SETTINGS", 0, <<>>, <<>>, FALSE)>>
                      ELSE <<>>) \o request_frames(request, stream_id)
       IN  /\ next_call(t, [Idle EXCEPT !.request = request,
                                        !.stream_id = stream_id,
                                        !.outgoing = frames],
                        IF fresh THEN connect(backend) ELSE backend)
           /\ client' = [next_stream_id |-> stream_id + 2,
                         received |-> IF fresh THEN <<>> ELSE client.received]
           /\ emitted' = IF fresh THEN <<>> ELSE emitted
    /\ UNCHANGED <<done, drops, handled, plan>>
    /\ UNCHANGED middleware_vars

\* MockHTTP2Server.write resumes after its sleep and runs to its end.
Write(t) ==
    /\ tasks[t].pc = "write"
    /\ runnable(backend, t)
    /\ LET server == backend.server[1]
           self == write(server, tasks[t].data)
           after == [resumed(backend, t) EXCEPT !.server = <<self>>]
       IN  /\ emitted' = emitted \o
                 SubSeq(self.buffer, Len(server.buffer) + 1, Len(self.buffer))
           /\ IF self.failed
              THEN /\ tasks' = [tasks EXCEPT ![t] = Idle]
                   /\ backend' = after
                   /\ done' = [done EXCEPT ![t] = Append(@,
                         [request |-> tasks[t].request,
                          stream_id |-> tasks[t].stream_id,
                          connection |-> backend.connects,
                          error |-> "ProtocolError",
                          response |-> client_response(<<>>, 0)])]
              ELSE /\ next_call(t, tasks[t], after)
                   /\ UNCHANGED done
    /\ UNCHANGED <<client, drops, handled, plan>>
    /\ UNCHANGED middleware_vars

\* MockHTTP2Server.read resumes after its sleep and returns; the client takes
\* the response of the task's stream when it is complete and reads on when not.
Read(t) ==
    /\ tasks[t].pc = "read"
    /\ runnable(backend, t)
    /\ LET got == read(backend.server[1], tasks[t].n)
           after == [resumed(backend, t) EXCEPT !.server = <<got.self>>]
           received == client.received \o got.send
           frames == parse(received)
       IN  /\ client' = [client EXCEPT !.received = received]
           /\ IF response_complete(frames, tasks[t].stream_id)
              THEN /\ tasks' = [tasks EXCEPT ![t] = Idle]
                   /\ backend' = after
                   /\ done' = [done EXCEPT ![t] = Append(@,
                         [request |-> tasks[t].request,
                          stream_id |-> tasks[t].stream_id,
                          connection |-> backend.connects,
                          error |-> "",
                          response |-> client_response(frames, tasks[t].stream_id)])]
              ELSE /\ next_call(t, tasks[t], after)
                   /\ UNCHANGED done
    /\ UNCHANGED <<drops, emitted, handled, plan>>
    /\ UNCHANGED middleware_vars

\* Between two exchanges the connection is marked dropped:
\* backend.server.close_connection = True
Drop ==
    /\ backend.server # <<>>
    /\ \A t \in Tasks : tasks[t].pc = "idle"
    /\ \E t \in Tasks : done[t] # <<>>
    /\ ~backend.server[1].close_connection
    /\ drops < plan.drops
    /\ backend' = [backend EXCEPT !.server[1].close_connection = TRUE]
    /\ drops' = drops + 1
    /\ UNCHANGED <<client, tasks, done, emitted, handled, plan>>
    /\ UNCHANGED middleware_vars

\* One turn of the loop of write over the events of the codec, with an event
\* of any kind for any stream: the handler of the event runs to its end or
\* raises.
Handle(event) ==
    /\ backend.server # <<>>
    /\ Len(handled) < MaxEvents
    /\ LET server == backend.server[1]
           self == handle_events([server EXCEPT !.failed = FALSE], <<event>>)
       IN  /\ backend' = [backend EXCEPT !.server = <<self>>]
           /\ emitted' = emitted \o
                 SubSeq(self.buffer, Len(server.buffer) + 1, Len(self.buffer))
    /\ handled' = Append(handled, event)
    /\ UNCHANGED <<client, tasks, done, drops, plan>>
    /\ UNCHANGED middleware_vars

\* MockHTTP2Server.write with the bytes of frames of any client, after its
\* sleep: the events the codec yields for them are handled in order.
Receive(frames) ==
    /\ backend.server # <<>>
    /\ Len(handled) < MaxEvents
    /\ LET server == backend.server[1]
           data == serialize_all(frames)
           self == write(server, data)
       IN  /\ backend' = [backend EXCEPT !.server = <<self>>]
           /\ emitted' = emitted \o
                 SubSeq(self.buffer, Len(server.buffer) + 1, Len(self.buffer))
           /\ handled' = IF self.failed THEN handled
                         ELSE handled \o SelectSeq(
                                 conn_receive_data(server.conn, data).events,
                                 LAMBDA event : event.type \in
                                    {"RequestReceived", "DataReceived",
                                     "StreamEnded"})
    /\ UNCHANGED <<client, tasks, done, drops, plan>>
    /\ UNCHANGED middleware_vars

\* the exchanges of the tasks over a connection that stays up
NextExchange ==
    \/ \E t \in Tasks : \E request \in plan.requests : Begin(t, request)
    \/ \E t \in Tasks : Write(t)
    \/ \E t \in Tasks : Read(t)

\* the exchanges of the tasks over a connection that may be marked dropped
NextConnection ==
    \/ \E t \in Tasks : \E request \in plan.requests : Begin(t, request)
    \/ \E t \in Tasks : Write(t)
    \/ \E t \in Tasks : Read(t)
    \/ Drop

Next ==
    \/ \E e \in Engines : Send(e)
    \/ \E e \in Engines : \E id \in 1..Len(responses[e]) : CallNext(e, id)
    \/ Redirect_dispatch

\* ------------------------------------------------------------------ inputs

SeedCookies == [session |-> "seed", lang |-> "en"]

RequestCookies == [session |-> "mine", lang |-> Absent]

RequestUrl == URL("https", "example.org", "/a", "")

\* the caller's requests: to https://example.org/a, with or without a fragment,
\* an Authorization header and a one-shot body
Requests(methods, fragments, authorizations, streamings) ==
    {IF streaming
     THEN StreamingRequest(m, copy_with_fragment(RequestUrl, f),
              Headers(a, Absent), "body", RequestCookies)
     ELSE AsyncRequest(m, copy_with_fragment(RequestUrl, f),
              Headers(a, Absent), "body", RequestCookies) :
        m \in methods, f \in fragments, a \in authorizations, streaming \in streamings}

\* Location values: an absolute path, a network-path reference or an absolute URL
Locations(schemes, hosts, paths, fragments) ==
    {u \in [scheme : schemes \cup {""}, host : hosts \cup {""}, path : paths,
            fragment : fragments] : u.scheme # "" => u.host # ""}

RepliesOf(statuses, locations) ==
    {Reply(codes.OK, NoLocation)}
        \cup {Reply(s, l) : s \in statuses, l \in locations}

\* no HTTP/2 connection is in use
InitNoConnection ==
    /\ backend = MockHTTP2Backend("asyncio")
    /\ client = [next_stream_id |-> 1, received |-> <<>>]
    /\ tasks = [t \in Tasks |-> Idle]
    /\ done = [t \in Tasks |-> <<>>]
    /\ drops = 0
    /\ emitted = <<>>
    /\ handled = <<>>
    /\ plan = [tasks |-> {}, exchanges |-> 0, drops |-> 0, requests |-> {},
               reads |-> {}]

InitMiddleware(auths, requests, ceilings, repertoire, max_sends, max_replays) ==
    /\ auth \in auths
    /\ req0 \in requests
    /\ replies = repertoire
    /\ served = {}
    /\ \E m \in ceilings :
        engine = [e \in Engines |-> Redirect__init__(e = "eager", m, SeedCookies)]
    /\ responses = [e \in Engines |-> <<>>]
    /\ pc = "idle"
    /\ call = [engine |-> "eager", request |-> req0, top |-> FALSE]
    /\ result = [e \in Engines |-> NoResult]
    /\ sends = [e \in Engines |-> 0]
    /\ invoked = [e \in Engines |-> {}]
    /\ replays = [e \in Engines |-> 0]
    /\ budget = [sends |-> max_sends, replays |-> max_replays]
    /\ rewrites = [e \in Engines |-> <<>>]
    /\ invocations = [auth |-> 0, dispatch |-> 0, redirect |-> 0]
    /\ forwarded = [e \in Engines |-> <<>>]

InitWith(auths, requests, ceilings, repertoire, max_sends, max_replays) ==
    /\ InitNoConnection
    /\ InitMiddleware(auths, requests, ceilings, repertoire, max_sends, max_replays)

\* Redirect chains on fresh middlewares: one top-level request through each,
\* every ceiling up to the bound, few rewrite cases.
ChainReplies ==
    RepliesOf({codes.SEE_OTHER, codes.TEMPORARY_REDIRECT},
        {URL("", "", "/a", ""), URL("", "", "/b", ""),
         URL("https", "example.com", "/a", ""), URL("", "", "/b", "sec")})

Init ==
    InitWith({no_auth},
        Requests({"GET", "POST"}, {"", "top"}, {"abc"}, BOOLEAN),
        0..MaxRedirectsBound, ChainReplies, 1, 0)

Spec == Init /\ [][Next]_vars

\* Chains of one request, where a dispatch that is to run does run: the
\* caller awaits its call.
InitAwaited ==
    InitWith({no_auth},
        Requests({"GET", "POST"}, {""}, {"abc"}, {FALSE}),
        0..MaxRedirectsBound, ChainReplies, 1, 0)

SpecAwaited == InitAwaited /\ [][Next]_vars /\ WF_vars(Redirect_dispatch)

\* One middleware used for several top-level requests, and continuations
\* invoked again.
InitReuse ==
    InitWith({no_auth},
        Requests({"POST"}, {""}, {"abc"}, {FALSE}),
        0..MaxRedirectsBound,
        RepliesOf({codes.SEE_OTHER},
            {URL("", "", "/a", ""), URL("", "", "/b", ""),
             URL("https", "example.com", "/a", "")}),
        MaxSends, MaxReplays)

SpecReuse == InitReuse /\ [][Next]_vars

\* One hop of every kind: every method, every redirect status, a Location of
\* every form, with the ceiling at zero.
RewriteReplies ==
    RepliesOf(RedirectCodes,
        Locations({"https", "http"}, {"example.org", "example.com"}, {"/b"},
            {"", "sec"}))

InitRewrite ==
    InitWith({no_auth},
        Requests(Methods, {"", "top"}, {Absent, "abc"}, BOOLEAN),
        {0}, RewriteReplies, 1, 0)

SpecRewrite == InitRewrite /\ [][Next]_vars

\* Two hops over Locations of every form.
InitUrl ==
    InitWith({no_auth},
        Requests({"GET"}, {"", "top"}, {"abc"}, {FALSE}),
        {1},
        RepliesOf({codes.FOUND},
            Locations({"https", "http"}, {"example.org", "example.com"},
                {"/a", "/b"}, {"", "sec"})),
        1, 0)

SpecUrl == InitUrl /\ [][Next]_vars

\* Chains that leave the origin of the first request and come back to it.
InitOrigins ==
    InitWith({no_auth},
        Requests({"GET", "POST"}, {""}, {"abc"}, {FALSE}),
        {MaxRedirectsBound},
        RepliesOf({codes.FOUND, codes.TEMPORARY_REDIRECT},
            {URL("https", "example.com", "/a", ""),
             URL("https", "example.org", "/b", ""),
             URL("http", "example.org", "/a", ""),
             URL("", "", "/b", "")}),
        1, 0)

SpecOrigins == InitOrigins /\ [][Next]_vars

\* The chain with each auth middleware in front of the redirect middleware.
InitAuth ==
    InitWith({no_auth, basic_auth("user", "pass"), custom_auth},
        Requests({"POST"}, {""}, {Absent, "abc"}, {FALSE}),
        0..MaxRedirectsBound,
        RepliesOf({codes.SEE_OTHER, codes.TEMPORARY_REDIRECT},
            {URL("", "", "/a", ""), URL("", "", "/b", ""),
             URL("https", "example.com", "/a", "")}),
        1, 0)

SpecAuth == InitAuth /\ [][Next]_vars

\* One top-level request through each middleware, and continuations invoked
\* again, also after the chain has failed.
InitReplay ==
    InitWith({no_auth},
        Requests({"GET", "POST"}, {""}, {"abc"}, BOOLEAN),
        0..MaxRedirectsBound, ChainReplies, 1, MaxReplays)

SpecReplay == InitReplay /\ [][Next]_vars

\* A responder that may raise instead of answering, behind each auth
\* middleware and the redirect middleware.
InitRaise ==
    InitWith({no_auth, basic_auth("user", "pass"), custom_auth},
        Requests({"POST"}, {""}, {Absent, "abc"}, {FALSE}),
        0..MaxRedirectsBound,
        RepliesOf({codes.SEE_OTHER},
            {URL("", "", "/a", ""), URL("", "", "/b", "")})
            \cup {ReplyRaises("ConnectTimeout")},
        1, 0)

SpecRaise == InitRaise /\ [][Next]_vars

\* the requests of the tests: GET /1, /2, /3 and a POST with a body, here
\* written in two chunks
ClientRequest(method, path, body) ==
    [method |-> method, path |-> path, body |-> body]

Get(path) == ClientRequest("GET", path, <<>>)

PostData == ClientRequest("POST", "/", <<<<"<da">>, <<"ta>">>>>)

\* the middlewares are not in use
InitNoMiddleware ==
    InitMiddleware({no_auth}, Requests({"GET"}, {""}, {Absent}, {FALSE}),
        {0}, {}, 0, 0)

InitConnection(kinds, task_set, exchanges, max_drops, requests, reads) ==
    /\ InitNoMiddleware
    /\ backend \in {MockHTTP2Backend(kind) : kind \in kinds}
    /\ client = [next_stream_id |-> 1, received |-> <<>>]
    /\ tasks = [t \in Tasks |-> Idle]
    /\ done = [t \in Tasks |-> <<>>]
    /\ drops = 0
    /\ emitted = <<>>
    /\ handled = <<>>
    /\ plan = [tasks |-> task_set, exchanges |-> exchanges, drops |-> max_drops,
               requests |-> requests, reads |-> reads]

\* Two tasks exchange concurrently over the connection of one backend, of
\* either kind.
InitHTTP2 ==
    InitConnection(Backends, Tasks, MaxConcurrent, 0,
        {Get("/1"), PostData}, {1, ReadNumBytes})

SpecHTTP2 == InitHTTP2 /\ [][NextExchange]_vars

\* One task makes its exchanges one after the other, and the connection may
\* be marked dropped between two of them.
InitReconnect ==
    InitConnection(Backends, {"t1"}, MaxExchanges, MaxDrops,
        {Get("/1"), Get("/2"), PostData}, {1, ReadNumBytes})

SpecReconnect == InitReconnect /\ [][NextConnection]_vars

StreamIds == {1, 3}

\* the headers of a request-initiated event, and the payloads of data events
EventHeaders ==
    {request_frames(request, 1)[1].headers : request \in {Get("/1"), PostData}}

EventData == {<<"<da">>, <<"ta>">>}

\* the events of the codec handled one by one, in any order
NextHandlers ==
    \/ \E stream_id \in StreamIds : \E headers \in EventHeaders :
          Handle(Event("RequestReceived", stream_id, headers, <<>>))
    \/ \E stream_id \in StreamIds : \E data \in EventData :
          Handle(Event("DataReceived", stream_id, <<>>, data))
    \/ \E stream_id \in StreamIds : Handle(StreamEnded(stream_id))

\* the frames of any client, one per write: the preface, the headers of a
\* request and its data, with or without the end of the stream
NextFrames ==
    \/ /\ ~backend.server[1].conn.preface
       /\ Receive(<<Frame("SETTINGS", 0, <<>>, <<>>, FALSE)>>)
    \/ \E stream_id \in StreamIds : \E headers \in EventHeaders :
       \E end_stream \in BOOLEAN :
          Receive(<<Frame("HEADERS", stream_id, headers, <<>>, end_stream)>>)
    \/ \E stream_id \in StreamIds : \E data \in EventData \cup {<<>>} :
       \E end_stream \in BOOLEAN :
          Receive(<<Frame("DATA", stream_id, <<>>, data, end_stream)>>)

\* The server of a new connection, before any write.
InitHandlers ==
    /\ InitNoMiddleware
    /\ backend = connect(MockHTTP2Backend("asyncio"))
    /\ client = [next_stream_id |-> 1, received |-> <<>>]
    /\ tasks = [t \in Tasks |-> Idle]
    /\ done = [t \in Tasks |-> <<>>]
    /\ drops = 0
    /\ emitted = <<>>
    /\ handled = <<>>
    /\ plan = [tasks |-> {}, exchanges |-> 0, drops |-> 0, requests |-> {},
               reads |-> {}]

SpecHandlers == InitHandlers /\ [][NextHandlers]_vars

\* The server of a new connection and a client that writes any frames.
SpecFrames == InitHandlers /\ [][NextFrames]_vars

\* ------------------------------------------------------- claims: helpers

\* the responses engine e has received so far are all redirects
AllRedirects(e) ==
    \A i \in 1..Len(responses[e]) : is_redirect(responses[e][i])

\* the ids 1..n in the order the responses were received
InOrder(n) == [i \in 1..n |-> i]

\* what a response shows to the caller apart from its continuation
Observable(response) == [response EXCEPT !.next = <<>>]

\* the chain of engine e has ended: an error, or a response that is no redirect
Ended(e) ==
    \/ result[e].kind = "error"
    \/ /\ result[e].kind = "response"
       /\ ~is_redirect(responses[e][result[e].id])

\* ------------------------------------------------------------------- C1

\* C1: on a fresh engine a non-redirect response received after k redirect
\* responses is the one returned to the caller, k is at most max_redirects is
\* enough for that (TooManyRedirects is raised only once more than
\* max_redirects responses are in the history), and its history lists the k
\* redirect responses in the order they were received.
C1_ChainWithinLimit ==
    \A e \in Engines :
        /\ \A n \in 1..Len(responses[e]) :
              ~is_redirect(responses[e][n]) =>
                 /\ n = Len(responses[e])
                 /\ result[e] = Returned(n)
                 /\ Len(responses[e][n].history) = n - 1
                 /\ responses[e][n].history = InOrder(n - 1)
                 /\ \A i \in 1..(n - 1) : is_redirect(responses[e][i])
        /\ result[e] = Raised("TooManyRedirects") =>
              Len(responses[e]) > engine[e].max_redirects

\* two redirects with two different URLs, then the final response, with the
\* ceiling at two, in both modes
C1_Witness ==
    \A e \in Engines :
        /\ engine[e].max_redirects = 2
        /\ result[e] = Returned(3)
        /\ ~is_redirect(responses[e][3])
        /\ responses[e][3].history = <<1, 2>>
        /\ response_url(responses[e][1]) # response_url(responses[e][2])

\* ------------------------------------------------------------------- C2

\* C2 as stated: once a fresh engine has received more than max_redirects
\* redirect responses, the chain fails with TooManyRedirects.
C2_Original ==
    \A e \in Engines :
        (/\ Len(responses[e]) > engine[e].max_redirects
         /\ AllRedirects(e)
         /\ result[e].kind = "error")
            => result[e] = Raised("TooManyRedirects")

\* C2 amended: a fresh engine never receives more than max_redirects + 1
\* responses; when more than max_redirects redirect responses were received the
\* chain fails with TooManyRedirects, or with RedirectBodyUnavailable at the hop
\* whose request has a one-shot body and keeps its method; it never returns a
\* non-redirect response.
C2_ChainBeyondLimit ==
    \A e \in Engines :
        /\ Len(responses[e]) <= engine[e].max_redirects + 1
        /\ (Len(responses[e]) > engine[e].max_redirects /\ AllRedirects(e)) =>
              /\ result[e].kind = "response" =>
                    /\ ~engine[e].allow_redirects
                    /\ is_redirect(responses[e][result[e].id])
              /\ result[e].kind = "error" =>
                    \/ result[e] = Raised("TooManyRedirects")
                    \/ /\ result[e] = Raised("RedirectBodyUnavailable")
                       /\ LET last == responses[e][Len(responses[e])]
                          IN  /\ last.request.is_streaming
                              /\ ~(last.status_code \in {codes.SEE_OTHER, codes.FOUND}
                                    /\ last.request.method \notin {"HEAD", "GET"})
                              /\ ~(last.status_code = codes.MOVED_PERMANENTLY
                                    /\ last.request.method = "POST")

\* both modes fail with TooManyRedirects after max_redirects + 1 redirects
C2_Witness ==
    \A e \in Engines :
        /\ engine[e].max_redirects >= 1
        /\ result[e] = Raised("TooManyRedirects")
        /\ Len(responses[e]) = engine[e].max_redirects + 1
        /\ AllRedirects(e)

\* ------------------------------------------------------------------- C3

\* the request about to be dispatched has the URL of a response in the history
RevisitsUrl ==
    /\ pc = "dispatch"
    /\ \E i \in 1..Len(engine[call.engine].history) :
          call.request.url =
              response_url(responses[call.engine][engine[call.engine].history[i]])

\* C3 as stated: a request whose URL is in the history is not dispatched and
\* the call fails with RedirectLoop, whatever max_redirects is.
C3_Original ==
    [][RevisitsUrl =>
          /\ responses' = responses
          /\ result'[call.engine] = Raised("RedirectLoop")]_vars

\* C3 amended: a request whose URL is the URL of any response in the history is
\* not dispatched; the call fails with RedirectLoop when the history holds at
\* most max_redirects responses and with TooManyRedirects when it holds more.
C3_RevisitedUrlFails ==
    [][RevisitsUrl =>
          /\ responses' = responses
          /\ served' = served
          /\ pc' = "idle"
          /\ result'[call.engine] =
                IF Len(engine[call.engine].history) > engine[call.engine].max_redirects
                THEN Raised("TooManyRedirects")
                ELSE Raised("RedirectLoop")]_vars

\* A -> B -> A: the loop closes on the first URL, not on the preceding one
C3_Witness ==
    \E e \in Engines :
        /\ result[e] = Raised("RedirectLoop")
        /\ call.engine = e
        /\ Len(engine[e].history) = 2
        /\ call.request.url = response_url(responses[e][1])
        /\ call.request.url # response_url(responses[e][2])

\* ------------------------------------------------------------------- C4

\* C4: when the eager and the lazy chain of the same request have both ended,
\* they have dispatched the same requests in the same order, the lazy one at
\* most one per caller-visible call, and ended alike: the same error, or the
\* same final response with the same history.
C4_LazyMatchesEager ==
    (Ended("eager") /\ Ended("lazy")) =>
        /\ Len(responses["eager"]) = Len(responses["lazy"])
        /\ \A i \in 1..Len(responses["eager"]) :
              /\ i <= Len(responses["lazy"])
              /\ Observable(responses["eager"][i]) = Observable(responses["lazy"][i])
        /\ result["eager"] = result["lazy"]
        /\ Len(responses["lazy"]) <= sends["lazy"] + Cardinality(invoked["lazy"])
        /\ Len(responses["lazy"]) >= Cardinality(invoked["lazy"])

\* both chains took two hops and ended with a response
C4_Witness ==
    /\ Ended("eager") /\ Ended("lazy")
    /\ result["lazy"] = Returned(3)
    /\ result["eager"] = Returned(3)
    /\ Cardinality(invoked["lazy"]) = 2

\* ------------------------------------------------------------------- C5

\* C5 as stated: every top-level request sent through a redirect middleware
\* starts with an empty history.
C5_Original ==
    (pc = "dispatch" /\ call.top) => engine[call.engine].history = <<>>

\* ------------------------------------------------------------------- C6

\* the method the claim gives for a request method and a response status
C6_Expected(method, status_code) ==
    CASE status_code = codes.SEE_OTHER /\ method # "HEAD" -> "GET"
      [] status_code = codes.FOUND /\ method # "HEAD" -> "GET"
      [] status_code = codes.MOVED_PERMANENTLY /\ method = "POST" -> "GET"
      [] OTHER -> method

\* C6: at every hop the rewritten method is GET for 303 and 302 unless the
\* method is HEAD, GET for a 301 of a POST, and the request's method otherwise;
\* HEAD is never rewritten and 307 and 308 keep every method.
C6_RedirectMethod ==
    \A e \in Engines : \A i \in 1..Len(rewrites[e]) :
        LET rw == rewrites[e][i]
            status_code == responses[e][rw.response].status_code
        IN  /\ rw.method = C6_Expected(rw.request.method, status_code)
            /\ rw.next_request.method = rw.method
            /\ rw.request.method = "HEAD" => rw.method = "HEAD"
            /\ status_code \in {codes.TEMPORARY_REDIRECT, codes.PERMANENT_REDIRECT}
                  => rw.method = rw.request.method

\* a HEAD answered with 302 stays HEAD
C6_Witness ==
    \E e \in Engines :
        /\ Len(rewrites[e]) = 1
        /\ rewrites[e][1].request.method = "HEAD"
        /\ responses[e][1].status_code = codes.FOUND
        /\ rewrites[e][1].method = "HEAD"

\* ------------------------------------------------------------------- C7

\* C7: at every hop, when the redirect URL's origin differs from the request's,
\* the copied headers hold neither Authorization nor Host; when the origins are
\* equal they hold the request's Authorization and Host unchanged.
C7_RedirectHeaders ==
    \A e \in Engines : \A i \in 1..Len(rewrites[e]) :
        LET rw == rewrites[e][i]
            same == /\ rw.url.scheme = rw.request.url.scheme
                    /\ rw.url.host = rw.request.url.host
                    /\ DefaultPort(rw.url.scheme) = DefaultPort(rw.request.url.scheme)
        IN  /\ ~same => /\ rw.headers.Authorization = Absent
                        /\ rw.headers.Host = Absent
            /\ same => /\ rw.headers.Authorization = rw.request.headers.Authorization
                       /\ rw.headers.Host = rw.request.headers.Host

\* a request with credentials redirected to another host, and one redirected
\* within its origin
C7_Witness ==
    /\ Len(rewrites["eager"]) = 1
    /\ rewrites["eager"][1].request.headers.Authorization = "abc"
    /\ rewrites["eager"][1].url.host # rewrites["eager"][1].request.url.host
    /\ rewrites["eager"][1].headers = Headers(Absent, Absent)

\* ------------------------------------------------------------------- C8

\* C8: at every hop, when the method changes to GET the new body is empty and
\* nothing is raised, one-shot body or not; otherwise a one-shot body makes the
\* hop fail with RedirectBodyUnavailable and the engine dispatches nothing
\* more; otherwise the new body is the request's body.
C8_RedirectContent ==
    \A e \in Engines : \A i \in 1..Len(rewrites[e]) :
        LET rw == rewrites[e][i]
        IN  IF rw.method = "GET" /\ rw.request.method # "GET"
            THEN /\ ~rw.raised
                 /\ rw.content = ""
                 /\ rw.next_request.content = ""
            ELSE IF rw.request.is_streaming
            THEN /\ rw.raised
                 /\ result[e] = Raised("RedirectBodyUnavailable")
                 /\ i = Len(rewrites[e])
                 /\ Len(responses[e]) = rw.response
            ELSE /\ ~rw.raised
                 /\ rw.content = rw.request.content
                 /\ rw.next_request.content = rw.request.content

\* the hop of a PUT with a one-shot body answered with 308 has failed
C8_Witness ==
    \E e \in Engines :
        /\ Len(rewrites[e]) = 1
        /\ rewrites[e][1].request.is_streaming
        /\ rewrites[e][1].request.method = "PUT"
        /\ responses[e][1].status_code = codes.PERMANENT_REDIRECT
        /\ result[e] = Raised("RedirectBodyUnavailable")

\* ------------------------------------------------------------------- C9

\* C9: at every hop a relative Location is resolved against the request's URL
\* and an absolute one is taken as given; the result has the request's fragment
\* exactly when the request has one and the Location has none, and its own
\* otherwise; so the first request's fragment stays until a Location has one.
C9_RedirectUrl ==
    \A e \in Engines : \A i \in 1..Len(rewrites[e]) :
        LET rw == rewrites[e][i]
            base == rw.request.url
            location == responses[e][rw.response].location
        IN  /\ location.scheme # "" =>
                  /\ rw.url.scheme = location.scheme
                  /\ rw.url.host = location.host
                  /\ rw.url.path = location.path
            /\ location.scheme = "" =>
                  /\ rw.url.scheme = base.scheme
                  /\ rw.url.host = IF location.host # "" THEN location.host ELSE base.host
                  /\ rw.url.path = location.path
            /\ rw.url.fragment =
                  IF base.fragment # "" /\ location.fragment = ""
                  THEN base.fragment ELSE location.fragment
            /\ rw.next_request.url = rw.url
            /\ i > 1 => base = rewrites[e][i - 1].url
            /\ (\A j \in 1..i : responses[e][rewrites[e][j].response].location.fragment = "")
                  => rw.url.fragment = rewrites[e][1].request.url.fragment

\* two hops, a relative then an absolute Location, keep the first fragment
C9_Witness ==
    \E e \in Engines :
        /\ Len(rewrites[e]) = 2
        /\ rewrites[e][1].request.url.fragment = "top"
        /\ responses[e][1].location.scheme = ""
        /\ responses[e][2].location.scheme = "http"
        /\ rewrites[e][2].url = URL("http", "example.com", "/b", "top")

\* ------------------------------------------------------------------ C10

\* C10 as stated: within one caller-visible call no middleware invokes its next
\* responder more than once.
C10_Original ==
    /\ invocations.auth <= 1
    /\ invocations.redirect <= 1

\* C10 amended: within one caller-visible call an auth middleware invokes its
\* next responder once; each Redirect.dispatch invocation invokes it at most
\* once, so the lazy engine invokes it at most once per call and the eager
\* engine once per hop, at most max_redirects + 1 times.
C10_NextInvocations ==
    /\ invocations.auth <= 1
    /\ (call.top /\ auth.kind # "none") => invocations.auth = 1
    /\ invocations.redirect <= invocations.dispatch
    /\ invocations.dispatch <= invocations.redirect + 1
    /\ ~engine[call.engine].allow_redirects => invocations.redirect <= 1
    /\ engine[call.engine].allow_redirects =>
          invocations.redirect <= engine[call.engine].max_redirects + 1

\* one eager call behind basic_auth invoked the responder three times
C10_Witness ==
    /\ auth.kind = "basic"
    /\ call.engine = "eager"
    /\ invocations.auth = 1
    /\ invocations.redirect = 3
    /\ result["eager"].kind = "response"

\* ------------------------------------------------------------------ C11

\* C11: the basic_auth middleware holds the Authorization value computed from
\* its credentials at construction and never changes it; every request it
\* forwards carries exactly that value, whatever Authorization the request was
\* given with, and is otherwise the request as given; so all the requests one
\* middleware forwards carry the same value.
C11_BasicAuthHeader ==
    auth.kind = "basic" =>
        /\ auth.authorization_header = "Basic dXNlcjpwYXNz"
        /\ \A e \in Engines : \A i \in 1..Len(forwarded[e]) :
              LET f == forwarded[e][i]
              IN  /\ f.request.headers.Authorization = auth.authorization_header
                  /\ f.request =
                        [f.given EXCEPT !.headers.Authorization =
                            auth.authorization_header]
        /\ \A e1, e2 \in Engines :
              \A i \in 1..Len(forwarded[e1]) : \A j \in 1..Len(forwarded[e2]) :
                 forwarded[e1][i].request.headers.Authorization =
                     forwarded[e2][j].request.headers.Authorization

\* one middleware forwarded two requests: the first was given with the
\* caller's own Authorization value, the second with the value set before
C11_Witness ==
    /\ auth.kind = "basic"
    /\ \E e1, e2 \in Engines :
          /\ e1 # e2
          /\ Len(forwarded[e1]) = 1 /\ Len(forwarded[e2]) = 1
          /\ forwarded[e1][1].given.headers.Authorization = "abc"
          /\ forwarded[e1][1].request.headers.Authorization = "Basic dXNlcjpwYXNz"
          /\ forwarded[e2][1].given.headers.Authorization = "Basic dXNlcjpwYXNz"
          /\ Len(responses[e2]) >= 1
          /\ responses[e2][1].request.headers.Authorization = "Basic dXNlcjpwYXNz"

\* ------------------------------------------------------------------ C12

\* the hop about to run fails with TooManyRedirects or with RedirectLoop
C12_Refused ==
    \/ Len(engine[call.engine].history) > engine[call.engine].max_redirects
    \/ RevisitsUrl

\* the step is a Redirect.dispatch invocation whose hop fails: the history is
\* beyond the ceiling, the request's URL is in the history, or the request
\* with a one-shot body would have to be sent again with its method
C12_HopFails ==
    /\ pc = "dispatch"
    /\ \/ C12_Refused
       \/ /\ Len(rewrites'[call.engine]) > Len(rewrites[call.engine])
          /\ rewrites'[call.engine][Len(rewrites'[call.engine])].request.is_streaming
          /\ rewrites'[call.engine][Len(rewrites'[call.engine])].method =
                 rewrites'[call.engine][Len(rewrites'[call.engine])].request.method

\* the failing hop ends the caller's call with its error and with no response,
\* and changes no response's continuation; the response it received, if any,
\* has none
C12_Unwinds ==
    /\ pc' = "idle"
    /\ result'[call.engine].kind = "error"
    /\ result'[call.engine].error =
          IF Len(engine[call.engine].history) > engine[call.engine].max_redirects
          THEN "TooManyRedirects"
          ELSE IF RevisitsUrl THEN "RedirectLoop"
          ELSE "RedirectBodyUnavailable"
    /\ \A i \in 1..Len(responses'[call.engine]) :
          responses'[call.engine][i].next =
             IF i <= Len(responses[call.engine])
             THEN responses[call.engine][i].next ELSE <<>>
    /\ C12_Refused => responses' = responses

\* the step is the caller invoking a continuation of a middleware whose last
\* call failed
C12_NextAfterFailure ==
    /\ pc = "idle" /\ pc' = "dispatch" /\ ~call'.top
    /\ result[call'.engine].kind = "error"

\* C12 as stated: a failing hop unwinds as above, and after a call of a fresh
\* middleware has failed no continuation the caller holds resumes the chain:
\* whichever it invokes, the hop fails again without dispatching.
C12_Original ==
    [][/\ C12_HopFails => C12_Unwinds
       /\ C12_NextAfterFailure => C12_Refused'
      ]_vars

\* C12 amended: a failing hop unwinds as above, and the continuation whose
\* call failed does not resume the chain: invoked again, its hop fails again
\* without dispatching.
C12_FailedHop ==
    [][/\ C12_HopFails => C12_Unwinds
       /\ (/\ C12_NextAfterFailure
           /\ call'.engine = call.engine
           /\ call'.request = call.request) => C12_Refused'
      ]_vars

\* with the ceiling at zero the only continuation failed with
\* TooManyRedirects, was invoked again and failed again
C12_Witness ==
    /\ pc = "idle"
    /\ engine["lazy"].max_redirects = 0
    /\ Len(responses["lazy"]) = 1
    /\ result["lazy"] = Raised("TooManyRedirects")
    /\ replays["lazy"] >= 1
    /\ call.engine = "lazy"
    /\ call.request = responses["lazy"][1].next[1]

\* ------------------------------------------------------------------ C13

\* the correlation table of the server of the connection
Table == IF backend.server = <<>> THEN NoRequests ELSE backend.server[1].requests

AppCalls == IF backend.server = <<>> THEN <<>> ELSE backend.server[1].app_calls

\* the streams the codec of the server has seen begin, and those of them it
\* has seen end
StreamsBegun ==
    IF backend.server = <<>> THEN {} ELSE backend.server[1].conn.streams

StreamsEnded ==
    IF backend.server = <<>> THEN {} ELSE StreamsBegun \ backend.server[1].conn.open

\* C14: the records in the table are those of the streams that have begun and
\* not ended; the handler was called once for each stream that has ended, with
\* the record of that stream, which is then no longer in the table; it was
\* never called for a stream still in the table nor twice for one stream, and
\* it was called as many times as stream-ended events were handled.
C14_HandedOverOnce ==
    /\ DOMAIN Table = StreamsBegun \ StreamsEnded
    /\ {AppCalls[i].stream_id : i \in 1..Len(AppCalls)} = StreamsEnded
    /\ Len(AppCalls) = Cardinality(StreamsEnded)
    /\ \A i \in 1..Len(AppCalls) :
          /\ AppCalls[i].stream_id \notin DOMAIN Table
          /\ headers_dict(AppCalls[i].record.headers, ":method") # Absent
          /\ \A j \in 1..Len(AppCalls) :
                AppCalls[i].stream_id = AppCalls[j].stream_id => i = j

\* the handler was called for the stream opened second while the record of
\* the stream opened first is still pending
C14_Witness ==
    /\ Len(AppCalls) = 1
    /\ AppCalls[1].stream_id = 3
    /\ AppCalls[1].record.data = <<"<da", "ta>">>
    /\ DOMAIN Table = {1}

\* ------------------------------------------------------------------ C15

\* the chunks of a body, joined
RECURSIVE Joined(_)
Joined(body) == IF body = <<>> THEN <<>> ELSE Head(body) \o Joined(Tail(body))

\* the response the handler gives to a request, as the client reads it: the
\* status, the Content-Length header and the echo of the request
ExpectedResponse(request) ==
    [status_code |-> "200",
     headers |-> <<<<"content-length", "1">>>>,
     content |-> <<[method |-> request.method, path |-> request.path,
                    body |-> Joined(request.body)]>>,
     frames |-> 2]

\* the exchange ended without an error and with the response to its request
Succeeded(exchange) ==
    /\ exchange.error = ""
    /\ exchange.response = ExpectedResponse(exchange.request)

\* C15: one task makes its exchanges one after the other and the connection
\* may be marked dropped between two of them. Every exchange that ends, ends
\* with the response to its own request and without an error; an exchange
\* begun while the connection is marked dropped runs on a connection
\* established for it: a new server, with an empty correlation table, an empty
\* buffer and the dropped flag false; an exchange never runs on a connection
\* marked dropped; and once the request is written the whole response is in
\* the bytes the server has appended, so that the reads of the task end.
C15_Reconnect ==
    [][/\ \A t \in Tasks : \A i \in 1..Len(done'[t]) :
             /\ Succeeded(done'[t][i])
             /\ i > 1 => done'[t][i].connection >= done'[t][i - 1].connection
       /\ \A t \in Tasks :
             tasks'[t].pc # "idle" => ~backend'.server[1].close_connection
       /\ \A t \in Tasks :
             tasks'[t].pc = "read" =>
                /\ response_complete(parse(emitted'), tasks'[t].stream_id)
                /\ emitted' = client'.received \o backend'.server[1].buffer
       /\ (/\ backend.server # <<>>
           /\ backend.server[1].close_connection
           /\ \E t \in Tasks : tasks'[t].pc # "idle")
          => /\ backend'.connects = backend.connects + 1
             /\ backend'.server[1].requests = NoRequests
             /\ backend'.server[1].buffer = <<>>
             /\ backend'.server[1].app_calls = <<>>
             /\ backend'.server[1].conn = H2Connection
             /\ ~backend'.server[1].close_connection
      ]_vars

\* /1, /2 and a POST one after the other, the connection marked dropped after
\* the first: the second and the third ran on the second connection
C15_Witness ==
    /\ drops = 1
    /\ Len(done["t1"]) = 3
    /\ done["t1"][1].request = Get("/1") /\ done["t1"][1].connection = 1
    /\ done["t1"][2].request = Get("/2") /\ done["t1"][2].connection = 2
    /\ done["t1"][3].request = PostData /\ done["t1"][3].connection = 2
    /\ done["t1"][3].stream_id = 3
    /\ \A i \in 1..3 : Succeeded(done["t1"][i])

\* ------------------------------------------------------------------ C16

\* the record is the one of the task's request: its headers, and the body
\* chunks written so far, in order
RecordOf(record, task) ==
    /\ record.headers = request_frames(task.request, task.stream_id)[1].headers
    /\ \E k \in 0..Len(task.request.body) :
          record.data = Joined(SubSeq(task.request.body, 1, k))

\* C16: with two tasks suspended in and resumed from the sleeps of write and
\* read in any order the scheduler allows, between any two steps the bytes the
\* server appended are exactly the bytes read so far followed by the bytes
\* still in the buffer, in order, and they are whole frames; the codec holds no
\* unsent bytes and no partial input; and the correlation table holds, for
\* each stream begun and not ended and for no other, the one record of the
\* task that owns the stream, with that task's headers and body chunks only;
\* the owner is still writing its request, or the codec has refused a write
\* and the owner's exchange has ended with that error.
C16_SerializedAccess ==
    backend.server # <<>> =>
        LET self == backend.server[1]
        IN  /\ emitted = client.received \o self.buffer
            /\ remainder(emitted) = <<>>
            /\ \A i \in 1..Len(parse(emitted)) : parse(emitted)[i] # Corrupt
            /\ self.conn.outbox = <<>>
            /\ self.conn.inbound = <<>>
            /\ DOMAIN self.requests = self.conn.open
            /\ \A stream_id \in DOMAIN self.requests :
                  /\ Len(self.requests[stream_id]) = 1
                  /\ \E t \in Tasks :
                        \/ /\ tasks[t].stream_id = stream_id
                           /\ tasks[t].pc = "write"
                           /\ RecordOf(self.requests[stream_id][1], tasks[t])
                        \/ /\ self.conn.error
                           /\ \E i \in 1..Len(done[t]) :
                                 /\ done[t][i].stream_id = stream_id
                                 /\ done[t][i].error = "ProtocolError"
                                 /\ RecordOf(self.requests[stream_id][1],
                                             done[t][i])

\* both tasks are suspended, one in write with its record pending and one in
\* read, and a read has returned the first bytes of a frame without the rest
C16_Witness ==
    /\ tasks["t1"].pc = "write"
    /\ tasks["t2"].pc = "read"
    /\ tasks["t1"].stream_id \in DOMAIN Table
    /\ Len(client.received) % 2 = 1
    /\ Len(backend.server[1].buffer) >= 1
    /\ Len(AppCalls) = 1

\* ------------------------------------------------------------------ C17

C18_HistorySnapshot ==
    \A e \in Engines : \A n \in 1..Len(responses[e]) :
        /\ Len(responses[e][n].history) = n - 1
        /\ responses[e][n].history = InOrder(n - 1)
        /\ \A i \in 1..Len(responses[e][n].history) :
              responses[e][n].history[i] # n
        /\ Len(responses[e][n].history) <= Len(engine[e].history)

\* three redirects received and kept by the engine, in both modes: the first
\* response still has the empty history, the second the first alone
C18_Witness ==
    \A e \in Engines :
        /\ Len(responses[e]) = 3
        /\ engine[e].history = <<1, 2, 3>>
        /\ responses[e][1].history = <<>>
        /\ responses[e][2].history = <<1>>
        /\ responses[e][3].history = <<1, 2>>

\* ------------------------------------------------------------------ C19

\* the step receives a response for engine e that is not a redirect
C19_ReceivesNonRedirect(e) ==
    /\ pc = "dispatch"
    /\ call.engine = e
    /\ Len(responses'[e]) = Len(responses[e]) + 1
    /\ ~is_redirect(responses'[e][Len(responses'[e])])

\* C19: when the response to the dispatched request is not a redirect, in
\* eager and in lazy mode, the dispatch returns that response with the
\* engine's history as it stood attached, the engine's own history stays as it
\* was, no rewritten request is built, no further request is dispatched and
\* the response carries no continuation.
C19_NonRedirectReturned ==
    [][\A e \in Engines :
        C19_ReceivesNonRedirect(e) =>
            LET id == Len(responses'[e])
                response == responses'[e][id]
            IN  /\ \E reply \in get_response(call.request) :
                      response = [AsyncResponse(reply, call.request)
                                     EXCEPT !.history = engine[e].history]
                /\ result'[e] = Returned(id)
                /\ response.next = <<>>
                /\ engine' = engine
                /\ rewrites' = rewrites
                /\ pc' = "idle"
                /\ \A i \in 1..Len(responses[e]) :
                      responses'[e][i] = responses[e][i]]_vars

\* both engines have returned a non-redirect response received after one
\* redirect: it carries that one response as its history and the engine's
\* history and rewritten requests are those of the one hop
C19_Witness ==
    \A e \in Engines :
        /\ pc = "idle"
        /\ result[e] = Returned(2)
        /\ ~is_redirect(responses[e][2])
        /\ responses[e][2].history = <<1>>
        /\ responses[e][2].next = <<>>
        /\ engine[e].history = <<1>>
        /\ Len(rewrites[e]) = 1

\* ------------------------------------------------------------------ C20

\* the frames of streams among the frames the step appends to the buffer:
\* those that are not of the connection itself (stream 0)
C20_StreamFrames ==
    LET appended == parse(SubSeq(emitted', Len(emitted) + 1, Len(emitted')))
    IN  SelectSeq(appended, LAMBDA frame : frame.stream_id # 0)

\* C20: a step in which a stream s ends takes the oldest pending record of s
\* out of the table, calls the handler once, with the request rebuilt from
\* that record (the method, path and body the client sent on s), and appends
\* the handler's response on stream s: a HEADERS frame whose first entry is
\* :status and whose other entries are the response's headers, then a DATA
\* frame with the body and the end-of-stream flag; no frame of another stream
\* is appended, and a step in which no stream ends appends no stream frame.
C20_StreamComplete ==
    [][/\ Len(AppCalls') = Len(AppCalls) => C20_StreamFrames = <<>>
       /\ Len(AppCalls') # Len(AppCalls) =>
            LET called == AppCalls'[Len(AppCalls')]
                s == called.stream_id
                record == called.record
                request == called.request
                response == called.response
            IN  /\ Len(AppCalls') = Len(AppCalls) + 1
                /\ s \notin DOMAIN backend'.server[1].requests
                /\ s \in DOMAIN Table =>
                      /\ record.headers = Table[s][1].headers
                      /\ Len(record.data) >= Len(Table[s][1].data)
                      /\ SubSeq(record.data, 1, Len(Table[s][1].data))
                            = Table[s][1].data
                /\ request = Request(
                      headers_dict(record.headers, ":method"),
                      [scheme |-> headers_dict(record.headers, ":scheme"),
                       authority |-> headers_dict(record.headers, ":authority"),
                       path |-> headers_dict(record.headers, ":path")],
                      regular_headers(record.headers), record.data)
                /\ \E t \in Tasks :
                      /\ tasks[t].stream_id = s
                      /\ request.method = tasks[t].request.method
                      /\ request.url.path = tasks[t].request.path
                      /\ request.content = Joined(tasks[t].request.body)
                /\ response = app(request)
                /\ Len(C20_StreamFrames) = 2
                /\ C20_StreamFrames[1].type = "HEADERS"
                /\ C20_StreamFrames[1].stream_id = s
                /\ C20_StreamFrames[1].end_stream = FALSE
                /\ C20_StreamFrames[1].headers[1]
                      = <<":status", ToString(response.status_code)>>
                /\ Tail(C20_StreamFrames[1].headers) = response.headers
                /\ C20_StreamFrames[2].type = "DATA"
                /\ C20_StreamFrames[2].stream_id = s
                /\ C20_StreamFrames[2].data = response.content
                /\ C20_StreamFrames[2].end_stream = TRUE]_vars

\* stream 3 ended while stream 1 was open and stream 1 ended after it: the
\* responses are in the bytes of the server in that order, each on its stream
C20_Witness ==
    LET frames == SelectSeq(parse(emitted), LAMBDA frame : frame.stream_id # 0)
    IN  /\ Len(AppCalls) = 2
        /\ AppCalls[1].stream_id = 3
        /\ AppCalls[2].stream_id = 1
        /\ AppCalls[2].record.data = <<"<da", "ta>">>
        /\ Len(frames) = 4
        /\ [i \in 1..4 |-> frames[i].stream_id] = <<3, 3, 1, 1>>
        /\ [i \in 1..4 |-> frames[i].type] = <<"HEADERS", "DATA", "HEADERS", "DATA">>

\* ------------------------------------------------------------------ C21

\* the step hands an event of this type to its handler
C21_Handles(type) ==
    /\ Len(handled') = Len(handled) + 1
    /\ handled'[Len(handled')].type = type

\* C21: a data event for a stream with a record in the table appends its
\* payload to the data of the newest record of that stream, leaves the headers
\* of that record, the other records of the stream and the records of every
\* other stream as they were, and does not raise; a data event for a stream
\* without a record raises and leaves the table as it was. Neither calls the
\* handler of requests nor appends to the buffer.
C21_ReceiveData ==
    [][C21_Handles("DataReceived") =>
        LET event == handled'[Len(handled')]
            s == event.stream_id
            self == backend.server[1]
            after == backend'.server[1]
        IN  /\ after.app_calls = self.app_calls
            /\ after.buffer = self.buffer
            /\ IF s \in DOMAIN self.requests
               THEN LET last == Len(self.requests[s])
                    IN  /\ ~after.failed
                        /\ DOMAIN after.requests = DOMAIN self.requests
                        /\ \A k \in DOMAIN self.requests \ {s} :
                              after.requests[k] = self.requests[k]
                        /\ Len(after.requests[s]) = last
                        /\ \A i \in 1..(last - 1) :
                              after.requests[s][i] = self.requests[s][i]
                        /\ after.requests[s][last].headers
                              = self.requests[s][last].headers
                        /\ after.requests[s][last].data
                              = self.requests[s][last].data \o event.data
               ELSE /\ after.failed
                    /\ after.requests = self.requests]_vars

\* two payloads were appended to the record of stream 1, and then a data
\* event for stream 3, which has no record, raised and left the table alone
C21_Witness ==
    /\ Len(handled) = 4
    /\ handled[4].type = "DataReceived"
    /\ handled[4].stream_id = 3
    /\ backend.server[1].failed
    /\ DOMAIN Table = {1}
    /\ Len(Table[1]) = 1
    /\ Table[1][1].data = <<"<da", "ta>">>

\* ------------------------------------------------------------------ C22

\* the step is a dispatch of the redirect engine in which the responder,
\* reached through the guards, raises this error
C22_ResponderRaises(error) ==
    /\ pc = "dispatch"
    /\ ~limit_exceeded(engine[call.engine])
    /\ ~loop_detected(history_urls(call.engine), call.request)
    /\ \E answer \in served' :
          /\ answer.request = call.request
          /\ answer.reply.raises = error

\* C22: when the responder raises while the chain is dispatching, behind no
\* auth middleware, basic_auth or custom_auth, the caller's call ends with
\* that same error and with no response, and the dispatch call in which it
\* was raised leaves the history of the engine, the responses received and the
\* rewritten requests as they were before it.
C22_ErrorPropagates ==
    [][\A error \in {"ConnectTimeout"} :
        C22_ResponderRaises(error) =>
            /\ result'[call.engine] = Raised(error)
            /\ pc' = "idle"
            /\ engine' = engine
            /\ responses' = responses
            /\ rewrites' = rewrites]_vars

\* behind basic_auth the responder answered the first request with a redirect
\* and raised on the second, in the eager engine: the caller got the error and
\* the history holds the one redirect of the hop taken
C22_Witness ==
    /\ auth.kind = "basic"
    /\ result["eager"] = Raised("ConnectTimeout")
    /\ engine["eager"].history = <<1>>
    /\ Len(responses["eager"]) = 1
    /\ invocations.redirect = 2
    /\ pc = "idle"

\* ------------------------------------------------------------------ C23

C24_EagerTerminates ==
    /\ [](\A e \in Engines :
            Len(engine[e].history) <= engine[e].max_redirects + 1)
    /\ []((call.engine = "eager" /\ sends["eager"] = 1) =>
            /\ invocations.redirect <= engine["eager"].max_redirects + 1
            /\ invocations.dispatch <= engine["eager"].max_redirects + 2
            /\ invocations.dispatch >= 1 => invocations.redirect >= 1
            /\ (pc = "idle" /\ result["eager"] # NoResult) =>
                  invocations.redirect >= 1)
    /\ (pc = "dispatch" /\ call.engine = "eager")
          ~> (pc = "idle" /\ result["eager"] # NoResult)

\* the responder answered every request of the eager chain with a redirect to
\* a URL not seen before: with the ceiling at two it was invoked three times
\* and the fourth dispatch raised TooManyRedirects
C24_Witness ==
    /\ call.engine = "eager"
    /\ engine["eager"].max_redirects = 2
    /\ invocations.redirect = 3
    /\ invocations.dispatch = 4
    /\ Len(engine["eager"].history) = 3
    /\ result["eager"] = Raised("TooManyRedirects")
    /\ pc = "idle"

\* ------------------------------------------------------------------ C25

\* the dispatch that is to run is that of a continuation invoked before, whose
\* request the responder answered with a redirect that was returned to the
\* caller
C25_InvokedAgain ==
    /\ pc = "dispatch"
    /\ ~call.top
    /\ replays[call.engine] >= 1
    /\ \E i \in invoked[call.engine] :
          responses[call.engine][i].next = <<call.request>>
    /\ \E j \in 1..Len(responses[call.engine]) :
          /\ responses[call.engine][j].request = call.request
          /\ is_redirect(responses[call.engine][j])
          /\ responses[call.engine][j].next # <<>>

\* C25: a continuation invoked again after its first invocation returned a
\* redirect does not dispatch its request again: the call raises
\* TooManyRedirects when the history is beyond the ceiling and RedirectLoop
\* otherwise, the responder is not invoked and the engine, the responses and
\* the rewritten requests stay as they were.
C25_SingleUse ==
    [][C25_InvokedAgain =>
        /\ result'[call.engine] =
              IF Len(engine[call.engine].history)
                    > engine[call.engine].max_redirects
              THEN Raised("TooManyRedirects") ELSE Raised("RedirectLoop")
        /\ pc' = "idle"
        /\ invocations'.redirect = invocations.redirect
        /\ served' = served
        /\ engine' = engine
        /\ responses' = responses
        /\ rewrites' = rewrites]_vars

\* with the ceiling at two, the continuation of the first response returned a
\* second redirect; invoked again, it raised RedirectLoop and nothing was
\* dispatched
C25_Witness ==
    /\ pc = "idle"
    /\ call.engine = "lazy"
    /\ engine["lazy"].max_redirects = 2
    /\ Len(responses["lazy"]) = 2
    /\ is_redirect(responses["lazy"][2])
    /\ responses["lazy"][2].next # <<>>
    /\ call.request = responses["lazy"][1].next[1]
    /\ replays["lazy"] = 1
    /\ invocations.redirect = 0
    /\ result["lazy"] = Raised("RedirectLoop")

\* ------------------------------------------------------------------ C26

\* the requests of the chain of engine e in order: those dispatched, which the
\* responses refer to, and the one built last when it is not dispatched yet
C26_ChainRequests(e) ==
    [i \in 1..Len(responses[e]) |-> responses[e][i].request]
        \o (IF /\ rewrites[e] # <<>>
               /\ rewrites[e][Len(rewrites[e])].response = Len(responses[e])
               /\ ~rewrites[e][Len(rewrites[e])].raised
            THEN <<rewrites[e][Len(rewrites[e])].next_request>> ELSE <<>>)

\* C26: once a request of a chain goes to another origin than the request
\* before it, that request and every later request of the chain carry no
\* Authorization header, whatever origin they go to, that of the first
\* request included; and no request of a chain carries an Authorization
\* header other than the one of the first request.
C26_NoCredentialsAfterCrossing ==
    \A e \in Engines :
        LET chain == C26_ChainRequests(e)
        IN  \A k \in 1..Len(chain) :
                /\ chain[k].headers.Authorization
                      \in {Absent, chain[1].headers.Authorization}
                /\ (k > 1 /\ origin(chain[k].url) # origin(chain[k - 1].url)) =>
                      \A j \in k..Len(chain) :
                          chain[j].headers.Authorization = Absent

\* the first request carried Authorization, the second went to another origin
\* and the third came back to the origin of the first: both were dispatched
\* without Authorization
C26_Witness ==
    \E e \in Engines :
        /\ Len(responses[e]) = 3
        /\ responses[e][1].request.headers.Authorization = "abc"
        /\ origin(responses[e][2].request.url) # origin(responses[e][1].request.url)
        /\ origin(responses[e][3].request.url) = origin(responses[e][1].request.url)
        /\ responses[e][2].request.headers.Authorization = Absent
        /\ responses[e][3].request.headers.Authorization = Absent

\* ------------------------------------------------------------------ C27

\* the positions of the stream-ended events among the events handled, in order
C27_Ends ==
    LET ends[i \in 0..Len(handled)] ==
            IF i = 0 THEN <<>>
            ELSE IF handled[i].type = "StreamEnded" THEN Append(ends[i - 1], i)
            ELSE ends[i - 1]
    IN  ends[Len(handled)]

\* the positions before position i of the request-initiated events of the
\* stream of the event at i
C27_Initiations(i) ==
    {j \in 1..(i - 1) : /\ handled[j].type = "RequestReceived"
                        /\ handled[j].stream_id = handled[i].stream_id}

\* the data payloads received on stream s at the positions from..to, joined
\* in the order they were received
RECURSIVE C27_Payloads(_, _, _)
C27_Payloads(s, from, to) ==
    IF from > to THEN <<>>
    ELSE (IF handled[from].type = "DataReceived" /\ handled[from].stream_id = s
          THEN handled[from].data ELSE <<>>)
         \o C27_Payloads(s, from + 1, to)

\* C27: the handler is called once per stream-ended event, in their order; the
\* stream of the event has exactly one request-initiated event before it, and
\* the request the handler is given has the method, URL and headers of that
\* event and, as its body, the data payloads received on that stream between
\* the two events, joined in order, and no payload of another stream: the
\* empty body when there was none.
C27_RequestOfExchange ==
    /\ Len(AppCalls) = Len(C27_Ends)
    /\ \A n \in 1..Len(C27_Ends) :
          LET i == C27_Ends[n]
              s == handled[i].stream_id
              request == AppCalls[n].request
          IN  /\ AppCalls[n].stream_id = s
              /\ Cardinality(C27_Initiations(i)) = 1
              /\ \A j \in C27_Initiations(i) :
                    /\ request.method = headers_dict(handled[j].headers, ":method")
                    /\ request.url =
                          [scheme |-> headers_dict(handled[j].headers, ":scheme"),
                           authority |-> headers_dict(handled[j].headers, ":authority"),
                           path |-> headers_dict(handled[j].headers, ":path")]
                    /\ request.headers = regular_headers(handled[j].headers)
                    /\ request.content = C27_Payloads(s, j, i)

\* the POST on stream 1 got its two payloads before and after the GET on
\* stream 3 was initiated; stream 1 ended and the handler was given the POST
\* with both payloads in order
C27_Witness ==
    /\ Len(AppCalls) = 1
    /\ AppCalls[1].stream_id = 1
    /\ AppCalls[1].request.method = "POST"
    /\ AppCalls[1].request.content = <<"<da", "ta>">>
    /\ \E j \in 1..Len(handled) :
          /\ handled[j].type = "RequestReceived"
          /\ handled[j].stream_id = 3
          /\ headers_dict(handled[j].headers, ":method") = "GET"
          /\ \E k \in (j + 1)..Len(handled) :
                handled[k].type = "DataReceived" /\ handled[k].stream_id = 1

====
